---------------------------- MODULE Spec2Model ----------------------------
(***************************************************************************)
(* Model of translation_strings_tool.py: the transcoder between an Android *)
(* strings.xml resource tree and the "Deconstructed Strings" worksheet.    *)
(*                                                                         *)
(* Python str values are sequences of one-character strings, so that the   *)
(* comma-joined modifier cell is really joined and really split.  Python   *)
(* None is the one-element sequence None below, which is no str value.     *)
(***************************************************************************)
EXTENDS Integers, Sequences, FiniteSets, TLC

VARIABLES
    \* ---- get_column_value exercised on its own
    index,                  \* the argument of get_column_value
    column_value,           \* its return value
    \* ---- derive_modifiers_and_string / create_modified_element on their own
    item,                   \* the element handed to derive_modifiers_and_string
    mod_string,             \* returned modifiers_string
    ui_string,              \* returned ui_string
    modifier_list,          \* the list given to create_modified_element
    rebuilt,                \* outcome of create_modified_element
    \* ---- the process
    pc,                     \* position of the process
    mode,                   \* args.deconstruct / args.construct / neither
    failure,                \* the exception that ended the run, "" if none
    xml_items,              \* children of the parsed strings.xml root
    worksheet,              \* the openpyxl worksheet: worksheet[row][letters]
    excel_row_index,        \* populate_worksheet's running row index
    element_pos,            \* populate_worksheet's position in xml_elements
    workbook_saved,         \* the file name workbook.save wrote, None before
    number_of_rows,         \* worksheet.max_row as read by launch_xml_construction
    number_of_columns,      \* worksheet.max_column
    return_index,           \* create_folders' return_index / column_limit
    folders,                \* columns whose language folder exists
    column,                 \* loop variable of create_folders / launch_xml_construction
    row,                    \* loop variable of create_xml_file
    current_type,           \* create_xml_file's current_type
    xml_tree,               \* children of the 'resources' root, in order
    heap,                   \* the container Element objects create_xml_file created
    multiple_item_element,  \* index in heap of the open container, 0 = unbound
    files,                  \* the strings.xml written so far: <<column, tree>>
    warnings,               \* logger.warning calls made
    errors,                 \* logger.error calls made
    exit_code               \* exit status of the process, NoExit while running

vars == <<index, column_value, item, mod_string, ui_string, modifier_list,
          rebuilt, pc, mode, failure, xml_items, worksheet, excel_row_index,
          element_pos, workbook_saved, number_of_rows, number_of_columns, return_index,
          folders, column, row, current_type, xml_tree, heap,
          multiple_item_element, files, warnings, errors, exit_code>>

colVars == <<index, column_value>>
codecVars == <<item, mod_string, ui_string, modifier_list, rebuilt>>
procVars == <<mode, failure, xml_items, worksheet, excel_row_index,
              element_pos, workbook_saved, number_of_rows, number_of_columns,
              return_index, folders, column, row, current_type, xml_tree, heap,
              multiple_item_element, files, warnings, errors, exit_code>>

(***************************************************************************)
(* Python values                                                           *)
(***************************************************************************)
None == <<"<None>">>

\* str(value): the text of a str is itself, the text of None is "None".
Str(value) == IF value = None THEN <<"N", "o", "n", "e">> ELSE value

Comma == ","

\* The element tags and cell values the tool tests for.
tag_string == <<"s", "t", "r", "i", "n", "g">>
tag_string_array == <<"s", "t", "r", "i", "n", "g", "-", "a", "r", "r", "a", "y">>
tag_plurals == <<"p", "l", "u", "r", "a", "l", "s">>
tag_item == <<"i", "t", "e", "m">>

\* PySplit(s): s.split(","): the pieces between the commas, [''] for ''.
RECURSIVE PySplit(_)
PySplit(s) ==
    IF \A i \in 1..Len(s) : s[i] # Comma
    THEN <<s>>
    ELSE LET i == CHOOSE k \in 1..Len(s) :
                      s[k] = Comma /\ \A j \in 1..(k - 1) : s[j] # Comma
         IN  <<SubSeq(s, 1, i - 1)>> \o PySplit(SubSeq(s, i + 1, Len(s)))

(***************************************************************************)
(* xml.etree.ElementTree elements: tag, the two attributes the tool uses   *)
(* (None = attribute absent), text and the list of children.               *)
(***************************************************************************)
Element(tag) ==
    [tag |-> tag, name |-> None, quantity |-> None, text |-> None,
     children |-> <<>>]

\* element_has_key: key in element.attrib
is_deepest_item(element) == Len(element.children) = 0

\* The last element of list(element.iter()) (document order), with `child`
\* appended to it: what `list(e.iter()).pop(len - 1).append(child)` does to e.
RECURSIVE AppendToLast(_, _)
AppendToLast(element, child) ==
    IF Len(element.children) = 0
    THEN [element EXCEPT !.children = <<child>>]
    ELSE LET n == Len(element.children)
         IN  [element EXCEPT !.children[n] = AppendToLast(@, child)]

(***************************************************************************)
(* get_column_value                                                        *)
(***************************************************************************)
alphabet == <<"A", "B", "C", "D", "E", "F", "G", "H", "I", "J", "K", "L", "M",
              "N", "O", "P", "Q", "R", "S", "T", "U", "V", "W", "X", "Y", "Z">>

\* alphabet[i] for i >= 0 is element i + 1; past the end it raises IndexError.
IndexError(seq, i) == i >= Len(seq)

get_column_value_shifted(i) ==
    LET result == i \div Len(alphabet)
    IN  IF result > 0 /\ IndexError(alphabet, result)
        THEN None
        ELSE (IF result > 0 THEN <<alphabet[result + 1]>> ELSE <<>>)
             \o <<alphabet[(i % Len(alphabet)) + 1]>>

\* int(math.modf(index / 26)[1]) is the quotient; the except clause prints
\* and falls off the end of the function, which returns None.
get_column_value(i) ==
    LET result == i \div Len(alphabet)
    IN  IF result > 0 /\ IndexError(alphabet, result - 1)
        THEN None
        ELSE (IF result > 0 THEN <<alphabet[(result - 1) + 1]>> ELSE <<>>)
             \o <<alphabet[(i % Len(alphabet)) + 1]>>

\* The inverse mapping of section 4.1: letters read as zero-free base-26
\* digits A = 1 .. Z = 26, less one.
LetterDigit(ch) == CHOOSE d \in 1..Len(alphabet) : alphabet[d] = ch

RECURSIVE LettersValue(_)
LettersValue(letters) ==
    IF letters = <<>> THEN 0
    ELSE LettersValue(SubSeq(letters, 1, Len(letters) - 1)) * Len(alphabet)
         + LetterDigit(letters[Len(letters)])

letters_to_column(letters) == LettersValue(letters) - 1

\* The last index with a two-letter address, ZZ = 701.
LastTwoLetterIndex == Len(alphabet) * (Len(alphabet) + 1) - 1

(***************************************************************************)
(* derive_modifiers_and_string                                             *)
(***************************************************************************)
\* The while loop: the number of layers down the first-child chain.
RECURSIVE NumberOfLayers(_)
NumberOfLayers(current_level) ==
    IF is_deepest_item(current_level) THEN 1
    ELSE 1 + NumberOfLayers(current_level.children[1])

\* The for loop from `idx` on: <<modifiers_string, ui_string>>.
RECURSIVE DeriveLoop(_, _, _, _)
DeriveLoop(idx, number_of_layers, current_level, modifiers_string) ==
    LET mods == IF idx = 1 THEN modifiers_string \o current_level.tag
                ELSE IF idx > 1
                     THEN modifiers_string \o <<Comma>> \o current_level.tag
                     ELSE modifiers_string
    IN  IF idx = number_of_layers - 1
        THEN <<mods, current_level.text>>
        ELSE DeriveLoop(idx + 1, number_of_layers,
                        current_level.children[1], mods)

\* The walk that also records the tag of the element it starts from.
derive_keep_own_tag(it) ==
    LET derived == DeriveLoop(0, NumberOfLayers(it), it, <<>>)
    IN  <<IF derived[1] = <<>> THEN it.tag
          ELSE it.tag \o <<Comma>> \o derived[1],
          derived[2]>>

derive_modifiers_and_string(it) ==
    DeriveLoop(0, NumberOfLayers(it), it, <<>>)

(***************************************************************************)
(* create_modified_element                                                 *)
(***************************************************************************)
Unbound == [unbound |-> TRUE]

\* The for loop from modifier number `count` on: the final modifier_element.
RECURSIVE ModifierLoop(_, _, _, _)
ModifierLoop(modifiers, count, text, modifier_element) ==
    IF count > Len(modifiers) THEN modifier_element
    ELSE LET number_of_modifiers == Len(modifiers)
             modifier == modifiers[count]
             next ==
                 IF number_of_modifiers = 1
                 THEN [Element(modifier) EXCEPT !.text = text]
                 ELSE IF count = 1
                 THEN Element(modifier)
                 ELSE IF count = number_of_modifiers
                 THEN AppendToLast(modifier_element,
                                   [Element(modifier) EXCEPT !.text = text])
                 ELSE AppendToLast(modifier_element, Element(modifier))
         IN  ModifierLoop(modifiers, count + 1, text, next)

\* The outcome of a call: the value returned, or the exception raised.
Returned(value) == [raised |-> "", value |-> value]
Raised(exception) == [raised |-> exception, value |-> None]

create_modified_element(element_type, modifiers, key, text) ==
    LET base_element ==
            IF element_type # tag_item
            THEN [Element(element_type) EXCEPT !.name = key]
            ELSE Element(element_type)
        modifier_element == ModifierLoop(modifiers, 1, text, Unbound)
    IN  IF modifier_element = Unbound
        THEN Raised("UnboundLocalError")
        ELSE Returned([base_element EXCEPT !.children = <<modifier_element>>])


(***************************************************************************)
(* The worksheet: a sequence of rows, row r a function from column letters *)
(* to cell values; a cell never written holds None.                        *)
(***************************************************************************)
A == <<"A">>
B == <<"B">>
C == <<"C">>
D == <<"D">>

\* The columns of a sheet that has `columns` columns (worksheet.max_column).
Letters(columns) == {get_column_value(i) : i \in 0..(columns - 1)}

BlankRow(columns) == [l \in Letters(columns) |-> None]

\* worksheet.max_row: an empty sheet reports 1.
max_row(ws) == IF Len(ws) = 0 THEN 1 ELSE Len(ws)

\* worksheet.max_column
max_column(ws) == IF Len(ws) = 0 THEN 1 ELSE Cardinality(DOMAIN ws[1])

\* worksheet["<letters><r>"].value; openpyxl rejects the coordinate "None<r>".
ValidCoordinate(letters) == letters # None

Cell(ws, letters, r) ==
    IF r \in 1..Len(ws) /\ letters \in DOMAIN ws[r] THEN ws[r][letters]
    ELSE None

\* A sheet filled by the tool has the six heading columns A .. F.
DeconstructColumns == 6

\* worksheet["<letters><r>"] = value
SetCell(ws, letters, r, value) ==
    LET columns == IF Len(ws) = 0 THEN DeconstructColumns
                   ELSE Cardinality(DOMAIN ws[1])
        padded == IF r > Len(ws)
                  THEN ws \o [i \in 1..(r - Len(ws)) |-> BlankRow(columns)]
                  ELSE ws
    IN  [padded EXCEPT ![r][letters] = value]

(***************************************************************************)
(* populate_cell / populate_worksheet                                      *)
(***************************************************************************)
\* populate_cell with the modifier and the key columns exchanged.
populate_cell_swapped(ws, r, cell_type, value) ==
    IF cell_type = "cell_type" THEN SetCell(ws, A, r, value)
    ELSE IF cell_type = "modifier" THEN SetCell(ws, C, r, value)
    ELSE IF cell_type = "key" THEN SetCell(ws, B, r, value)
    ELSE IF cell_type = "string" THEN SetCell(ws, D, r, value)
    ELSE ws

populate_cell(ws, r, cell_type, value) ==
    IF cell_type = "cell_type" THEN SetCell(ws, A, r, value)
    ELSE IF cell_type = "modifier" THEN SetCell(ws, B, r, value)
    ELSE IF cell_type = "key" THEN SetCell(ws, C, r, value)
    ELSE IF cell_type = "string" THEN SetCell(ws, D, r, value)
    ELSE ws

\* The state of populate_worksheet after some rows: the sheet, the running
\* row index, and the exception raised ("" = none).
Populated(ws, idx, exception) ==
    [worksheet |-> ws, excel_row_index |-> idx, raised |-> exception]

\* The loop over the children without `excel_row_index += 1`: every child
\* is written over the row of its container.
RECURSIVE PopulateItems_same_row(_, _, _, _)
PopulateItems_same_row(ws, idx, element, k) ==
    IF k > Len(element.children) THEN Populated(ws, idx, "")
    ELSE LET it == element.children[k]
             ws1 == populate_cell(ws, idx, "cell_type", it.tag)
             ws2 == IF element.tag = tag_plurals
                    THEN populate_cell(ws1, idx, "key", it.quantity)
                    ELSE ws1
             ws3 == populate_cell(ws2, idx, "string", it.text)
         IN  IF element.tag = tag_plurals /\ it.quantity = None
             THEN Populated(ws1, idx, "KeyError")
             ELSE PopulateItems_same_row(ws3, idx, element, k + 1)

\* for item in child_elements, from child number k on (lines 341-352).
RECURSIVE PopulateItems(_, _, _, _)
PopulateItems(ws, idx, element, k) ==
    IF k > Len(element.children) THEN Populated(ws, idx, "")
    ELSE LET it == element.children[k]
             r == idx + 1
             ws1 == populate_cell(ws, r, "cell_type", it.tag)
         IN  IF element.tag = tag_plurals /\ it.quantity = None
             THEN Populated(ws1, r, "KeyError")
             ELSE LET ws2 == IF element.tag = tag_plurals
                             THEN populate_cell(ws1, r, "key", it.quantity)
                             ELSE ws1
                      derived == derive_modifiers_and_string(it)
                      ws3 == IF Len(it.children) = 0
                             THEN populate_cell(ws2, r, "string", it.text)
                             ELSE populate_cell(
                                      populate_cell(ws2, r, "modifier", derived[1]),
                                      r, "string", derived[2])
                  IN  PopulateItems(ws3, r, element, k + 1)

\* populate_worksheet reading the name with attrib.get("name").
PopulateElement_get(ws, idx, element) ==
    LET r == idx + 1
        ws1 == populate_cell(ws, r, "cell_type", element.tag)
        ws2 == populate_cell(ws1, r, "key", element.name)
        derived == derive_modifiers_and_string(element)
    IN  IF Len(element.children) = 0
        THEN Populated(populate_cell(ws2, r, "string", element.text), r, "")
        ELSE IF element.tag = tag_plurals \/ element.tag = tag_string_array
        THEN PopulateItems(ws2, r, element, 1)
        ELSE Populated(
                 populate_cell(populate_cell(ws2, r, "modifier", derived[1]),
                               r, "string", derived[2]),
                 r, "")

\* One iteration of `for element in xml_elements` (lines 330-357).
PopulateElement(ws, idx, element) ==
    LET r == idx + 1
        ws1 == populate_cell(ws, r, "cell_type", element.tag)
        derived == derive_modifiers_and_string(element)
    IN  IF element.name = None
        THEN Populated(ws1, r, "KeyError")
        ELSE LET ws2 == populate_cell(ws1, r, "key", element.name)
             IN  IF Len(element.children) = 0
                 THEN Populated(populate_cell(ws2, r, "string", element.text),
                                r, "")
                 ELSE IF element.tag = tag_plurals
                         \/ element.tag = tag_string_array
                 THEN PopulateItems(ws2, r, element, 1)
                 ELSE Populated(
                          populate_cell(
                              populate_cell(ws2, r, "modifier", derived[1]),
                              r, "string", derived[2]),
                          r, "")


(***************************************************************************)
(* Inputs                                                                  *)
(***************************************************************************)
MaxIndex == 704         \* column indices tried on get_column_value
MaxChain == 4           \* style wrappers around a leaf given to the codec
MaxElements == 2        \* top-level elements of a strings.xml
MaxItems == 2           \* items of a string-array / plurals
MaxStyle == 2           \* style wrappers around a string of a strings.xml

SeqsUpTo(S, n) == UNION {[1..k -> S] : k \in 0..n}

\* The style tags and the payload strings of the inputs.
ModTags == {<<"b">>, <<"u">>, <<"i">>}
TextX == <<"H", "i">>
TextY == <<"Y", "o">>
KeyK == <<"k">>
QuantityOne == <<"o", "n", "e">>

\* <tags[1]><tags[2]>...text...</tags[2]></tags[1]>
RECURSIVE Wrap(_, _)
Wrap(tags, text) ==
    IF Len(tags) = 1 THEN [Element(tags[1]) EXCEPT !.text = text]
    ELSE [Element(tags[1]) EXCEPT !.children = <<Wrap(Tail(tags), text)>>]

\* An element holding `text` inside the wrappers `tags` (none: holds it itself).
Leaf(tag, name, quantity, tags, text) ==
    IF tags = <<>>
    THEN [Element(tag) EXCEPT !.name = name, !.quantity = quantity,
                              !.text = text]
    ELSE [Element(tag) EXCEPT !.name = name, !.quantity = quantity,
                              !.children = <<Wrap(tags, text)>>]

\* b, b u, b u b, ...
StylePattern(n) == [i \in 1..n |-> IF i % 2 = 1 THEN <<"b">> ELSE <<"u">>]

\* The leaves given to the codec on its own.
CodecLeaves ==
    {Leaf(t[1], t[2], None, tags, TextX) :
        t \in {<<tag_string, KeyK>>, <<tag_item, None>>},
        tags \in SeqsUpTo(ModTags, MaxChain)}

\* n items of a container, all plain or all styled.
Items(n, quantity, styled) ==
    [i \in 1..n |-> Leaf(tag_item, None, quantity,
                         IF styled THEN StylePattern(1) ELSE <<>>,
                         IF i % 2 = 1 THEN TextX ELSE TextY)]

Container(tag, name, items) == [Element(tag) EXCEPT !.name = name,
                                                    !.children = items]

\* Well-formed top-level elements.
GoodElements ==
    {Leaf(tag_string, KeyK, None, StylePattern(n), TextX) : n \in 0..MaxStyle}
    \cup {Container(tag_string_array, KeyK, Items(n, None, styled)) :
              n \in 1..MaxItems, styled \in BOOLEAN}
    \cup {Container(tag_plurals, KeyK, Items(n, QuantityOne, styled)) :
              n \in 1..MaxItems, styled \in BOOLEAN}

\* Elements with a required attribute missing, and childless oddities.
OddElements ==
    {Leaf(tag_string, None, None, StylePattern(n), TextX) : n \in 0..1}
    \cup {Leaf(tag_string, KeyK, None, <<>>, None),
          Container(tag_string_array, KeyK, <<>>),
          Container(tag_string_array, None, Items(1, None, FALSE)),
          Container(tag_plurals, KeyK, Items(1, None, FALSE))}

XmlInputs == SeqsUpTo(GoodElements \cup OddElements, MaxElements)

\* '<sub>' in s
Contains(s, sub) ==
    \E i \in 1..(Len(s) - Len(sub) + 1) :
        SubSeq(s, i, i + Len(sub) - 1) = sub

Xlsx == <<".", "x", "l", "s", "x">>
Xls == <<".", "x", "l", "s">>
Filenames == {<<"f">>, <<"f">> \o Xlsx, <<"f">> \o Xls}

(***************************************************************************)
(* The process: main and the deconstruct run                               *)
(***************************************************************************)
NoExit == 0 - 1

constructVars == <<number_of_rows, number_of_columns, return_index, folders,
                   column, row, current_type, xml_tree, heap,
                   multiple_item_element, files>>

\* exit(1) after logger.error: SystemExit is no Exception, main lets it pass.
Fatal(exception) ==
    /\ errors' = errors + 1
    /\ failure' = exception
    /\ pc' = "exited"
    /\ exit_code' = 1

\* An exception nobody handles below main: main logs it and returns, and
\* the interpreter ends with status 0.
CaughtByMain(exception) ==
    /\ errors' = errors + 1
    /\ failure' = exception
    /\ pc' = "exited"
    /\ exit_code' = 0

\* A run that reaches the end of main.
Returns ==
    /\ pc' = "exited"
    /\ exit_code' = 0

Main ==
    /\ pc = "main"
    /\ IF mode = "deconstruct"
       THEN pc' = "read_xml_file" /\ UNCHANGED <<warnings, exit_code>>
       ELSE IF mode = "construct"
       THEN pc' = "read_excel_file" /\ UNCHANGED <<warnings, exit_code>>
       ELSE warnings' = warnings + 1 /\ Returns
    /\ UNCHANGED <<colVars, codecVars, mode, failure, xml_items, worksheet,
                   excel_row_index, element_pos, workbook_saved, errors>>
    /\ UNCHANGED constructVars

ReadXmlFile ==
    /\ pc = "read_xml_file"
    /\ \E outcome \in {"", "FileNotFoundError", "ParseError", "Exception"} :
          IF outcome = ""
          THEN /\ pc' = "populate_worksheet"
               /\ excel_row_index' = 1
               /\ element_pos' = 1
               /\ UNCHANGED <<errors, failure, exit_code>>
          ELSE /\ Fatal(outcome)
               /\ UNCHANGED <<excel_row_index, element_pos>>
    /\ UNCHANGED <<colVars, codecVars, mode, xml_items, worksheet,
                   workbook_saved, warnings>>
    /\ UNCHANGED constructVars

PopulateWorksheet(here, after) ==
    /\ pc = here
    /\ IF element_pos > Len(xml_items)
       THEN /\ pc' = after
            /\ UNCHANGED <<worksheet, excel_row_index, element_pos, errors,
                           failure, exit_code>>
       ELSE LET out == PopulateElement(worksheet, excel_row_index,
                                       xml_items[element_pos])
            IN  /\ worksheet' = out.worksheet
                /\ excel_row_index' = out.excel_row_index
                /\ IF out.raised # ""
                   THEN Fatal(out.raised) /\ UNCHANGED element_pos
                   ELSE /\ element_pos' = element_pos + 1
                        /\ UNCHANGED <<pc, errors, failure, exit_code>>
    /\ UNCHANGED <<colVars, codecVars, mode, xml_items, workbook_saved,
                   warnings>>
    /\ UNCHANGED constructVars

Headings ==
    <<<<"X", "M", "L", " ", "E", "l", "e", "m", "e", "n", "t", " ", "T", "y",
        "p", "e">>,
      <<"S", "t", "r", "i", "n", "g", " ", "S", "t", "y", "l", "e", " ", "M",
        "o", "d", "i", "f", "i", "e", "r", "s">>,
      <<"X", "M", "L", " ", "E", "l", "e", "m", "e", "n", "t", " ", "K", "e",
        "y">>,
      <<"E", "n", "g", "l", "i", "s", "h">>,
      <<"F", "r", "e", "n", "c", "h">>,
      <<"S", "p", "a", "n", "i", "s", "h">>>>

\* worksheet['A1'] = ... worksheet['F1'] = ...
RECURSIVE build_headings(_, _)
build_headings(ws, n) ==
    IF n = 0 THEN ws
    ELSE SetCell(build_headings(ws, n - 1), get_column_value(n - 1), 1,
                 Headings[n])

StyleWorksheet ==
    /\ pc = "style_worksheet"
    /\ worksheet' = build_headings(worksheet, Len(Headings))
    /\ pc' = "save_workbook"
    /\ UNCHANGED <<colVars, codecVars, mode, failure, xml_items,
                   excel_row_index, element_pos, workbook_saved, warnings,
                   errors, exit_code>>
    /\ UNCHANGED constructVars

\* Lines 127-137: the name the workbook is saved under.
SaveName(name) ==
    IF Contains(name, Xlsx) THEN name
    ELSE IF Contains(name, Xls)
    THEN SubSeq(name, 1, Len(name) - Len(Xls)) \o Xlsx
    ELSE name \o Xlsx

SaveWorkbook ==
    /\ pc = "save_workbook"
    /\ \E name \in Filenames, outcome \in {"", "OSError"} :
          /\ warnings' = IF ~Contains(name, Xlsx) /\ Contains(name, Xls)
                         THEN warnings + 1 ELSE warnings
          /\ IF outcome = ""
             THEN /\ workbook_saved' = SaveName(name)
                  /\ Returns
                  /\ UNCHANGED <<errors, failure>>
             ELSE /\ CaughtByMain(outcome)
                  /\ UNCHANGED workbook_saved
    /\ UNCHANGED <<colVars, codecVars, mode, xml_items, worksheet,
                   excel_row_index, element_pos>>
    /\ UNCHANGED constructVars

(***************************************************************************)
(* create_xml_file: one iteration of `for row in range(2, rows)`           *)
(***************************************************************************)
\* The locals of a pass, and the exception that ended it ("" = none).  The
\* containers live in `heap` and xml_tree refers to them by index, because
\* the tool keeps appending to a container it has already put in the tree.
InitialPass ==
    [current_type |-> tag_string, xml_tree |-> <<>>, heap |-> <<>>,
     multiple_item_element |-> 0, warnings |-> 0, raised |-> ""]

Value(element) == [ref |-> 0, element |-> element]
Reference(n) == [ref |-> n, element |-> Element(None)]

\* The children of the 'resources' root as plain elements.
Resolve(tree, objects) ==
    [i \in DOMAIN tree |->
        IF tree[i].ref = 0 THEN tree[i].element ELSE objects[tree[i].ref]]

\* elementTree.tostring followed by minidom.parseString accepts the tree:
\* every tag is a str that names an element.
RECURSIVE WellFormed(_)
WellFormed(element) ==
    /\ element.tag # None
    /\ element.tag # <<>>
    /\ \A i \in DOMAIN element.children : WellFormed(element.children[i])

Serializable(tree, objects) ==
    \A i \in DOMAIN tree : WellFormed(Resolve(tree, objects)[i])

\* The element of a row with the key as `name` whatever the element type.
RowElement_named(element_type, modifier_string, key, value) ==
    IF modifier_string = None
    THEN Returned([Element(element_type) EXCEPT !.name = Str(key),
                                                !.text = value])
    ELSE create_modified_element(element_type, PySplit(modifier_string),
                                 Str(key), Str(value))

\* Lines 656-664 and 669-676: the element of a `string` or `item` row.
RowElement(element_type, modifier_string, key, value) ==
    IF modifier_string = None
    THEN Returned([Element(element_type) EXCEPT
                       !.name = IF element_type = tag_item THEN None
                                ELSE Str(key),
                       !.text = value])
    ELSE create_modified_element(element_type, PySplit(modifier_string),
                                 Str(key), Str(value))

\* Lines 648-696, before the serialisation of lines 698-701.
RowBody(st, ws, col_number, r, rows) ==
    LET modifier_string == Cell(ws, B, r)
        type == Cell(ws, A, r)
        key == Cell(ws, C, r)
        value == Cell(ws, get_column_value(col_number), r)
        current == IF type # tag_item THEN type ELSE st.current_type
        st1 == [st EXCEPT !.current_type = current]
    IN  IF current = tag_string
        THEN LET made == RowElement(tag_string, modifier_string, key, value)
             IN  IF made.raised # ""
                 THEN [st1 EXCEPT !.raised = made.raised]
                 ELSE [st1 EXCEPT !.xml_tree = Append(@, Value(made.value))]
        ELSE IF Str(type) = tag_item
        THEN LET made == RowElement(tag_item, modifier_string, key, value)
                 open == st1.multiple_item_element
                 item_element ==
                     IF current = tag_plurals
                     THEN [made.value EXCEPT !.quantity = Str(key)]
                     ELSE made.value
             IN  IF made.raised # ""
                 THEN [st1 EXCEPT !.raised = made.raised]
                 ELSE IF open = 0
                 THEN [st1 EXCEPT !.raised = "UnboundLocalError"]
                 ELSE LET st2 == [st1 EXCEPT !.heap[open].children =
                                                 Append(@, item_element)]
                      IN  IF Str(Cell(ws, A, r + 1)) # tag_item
                             \/ r = rows - 1
                          THEN [st2 EXCEPT !.xml_tree =
                                               Append(@, Reference(open))]
                          ELSE st2
        ELSE IF current = tag_string_array \/ current = tag_plurals
        THEN [st1 EXCEPT
                 !.heap = Append(@, [Element(current) EXCEPT
                                         !.name = Str(key)]),
                 !.multiple_item_element = Len(st1.heap) + 1]
        ELSE IF ~ValidCoordinate(get_column_value(r))
        THEN [st1 EXCEPT !.raised = "ValueError"]
        ELSE [st1 EXCEPT !.warnings = @ + 1]

\* create_xml_file reading a blank type cell as `item`.
RowStep_blank_as_item(st, ws, col_number, r, rows) ==
    LET read == [ws EXCEPT ![r][A] = IF @ = None THEN tag_item ELSE @]
        done == RowBody(st, read, col_number, r, rows)
    IN  IF done.raised = "" /\ ~Serializable(done.xml_tree, done.heap)
        THEN [done EXCEPT !.raised = "ExpatError"]
        ELSE done

RowStep(st, ws, col_number, r, rows) ==
    LET done == RowBody(st, ws, col_number, r, rows)
    IN  IF done.raised = "" /\ ~Serializable(done.xml_tree, done.heap)
        THEN [done EXCEPT !.raised = "ExpatError"]
        ELSE done

\* The whole loop of a pass, from row r on.
RECURSIVE PassFrom(_, _, _, _, _)
PassFrom(st, ws, col_number, r, rows) ==
    IF r >= rows \/ st.raised # "" THEN st
    ELSE PassFrom(RowStep(st, ws, col_number, r, rows), ws, col_number,
                  r + 1, rows)

\* What create_xml_file hands to save_xml_file for a column, with the
\* exception that kept it from getting there.
PassResult(ws, col_number) ==
    LET st == PassFrom(InitialPass, ws, col_number, 2, max_row(ws))
    IN  [tree |-> Resolve(st.xml_tree, st.heap), raised |-> st.raised]

(***************************************************************************)
(* The construct run                                                       *)
(***************************************************************************)
FirstLanguageColumn == 3

deconstructVars == <<xml_items, excel_row_index, element_pos, workbook_saved>>

ReadExcelFile ==
    /\ pc = "read_excel_file"
    /\ \E name \in Filenames, in_path \in BOOLEAN,
          outcome \in {"", "FileNotFoundError", "Exception"} :
          IF ~Contains(name, Xlsx) /\ Contains(name, Xls)
          THEN Fatal("UnsupportedFileExtension")
          ELSE IF in_path
          THEN Fatal("FilenameInPath")
          ELSE IF outcome # ""
          THEN Fatal(outcome)
          ELSE /\ pc' = "get_excel_worksheet"
               /\ UNCHANGED <<errors, failure, exit_code>>
    /\ UNCHANGED <<colVars, codecVars, mode, worksheet, warnings>>
    /\ UNCHANGED deconstructVars
    /\ UNCHANGED constructVars

GetExcelWorksheet ==
    /\ pc = "get_excel_worksheet"
    /\ \E outcome \in {"", "KeyError", "Exception"} :
          IF outcome # ""
          THEN /\ Fatal(outcome)
               /\ UNCHANGED <<number_of_rows, number_of_columns, column,
                              return_index>>
          ELSE /\ number_of_rows' = max_row(worksheet)
               /\ number_of_columns' = max_column(worksheet)
               /\ return_index' = 0
               /\ column' = FirstLanguageColumn
               /\ pc' = "create_folders"
               /\ UNCHANGED <<errors, failure, exit_code>>
    /\ UNCHANGED <<colVars, codecVars, mode, worksheet, warnings>>
    /\ UNCHANGED deconstructVars
    /\ UNCHANGED <<folders, row, current_type, xml_tree, heap,
                   multiple_item_element, files>>

\* One iteration of `for column in range(3, columns)`, or the return.
CreateFolders ==
    /\ pc = "create_folders"
    /\ IF column >= number_of_columns
       THEN /\ pc' = "launch_xml_construction"
            /\ column' = FirstLanguageColumn
            /\ UNCHANGED <<folders, return_index, errors, failure, exit_code>>
       ELSE IF Cell(worksheet, get_column_value(column), 1) = None
       THEN /\ column' = column + 1
            /\ UNCHANGED <<pc, folders, return_index, errors, failure,
                           exit_code>>
       ELSE \E outcome \in {"", "OSError"} :
               IF outcome # ""
               THEN /\ Fatal(outcome)
                    /\ UNCHANGED <<folders, return_index, column>>
               ELSE /\ folders' = folders \cup {column}
                    /\ return_index' = column
                    /\ column' = column + 1
                    /\ UNCHANGED <<pc, errors, failure, exit_code>>
    /\ UNCHANGED <<colVars, codecVars, mode, worksheet, warnings>>
    /\ UNCHANGED deconstructVars
    /\ UNCHANGED <<number_of_rows, number_of_columns, row, current_type,
                   xml_tree, heap, multiple_item_element, files>>

NextLanguageColumn_skipping(c) == c + 2

\* for column in range(3, column_limit + 1): the column after `c`.
NextLanguageColumn(c) == c + 1

\* The head of one iteration of the loop of launch_xml_construction: the
\* directory name, then the call of create_xml_file on a new 'resources'.
LaunchXmlConstruction ==
    /\ pc = "launch_xml_construction"
    /\ IF column > return_index
       THEN /\ Returns
            /\ UNCHANGED <<errors, failure, row, current_type, xml_tree, heap,
                           multiple_item_element>>
       ELSE IF Cell(worksheet, get_column_value(column), 1) = None
       THEN /\ CaughtByMain("TypeError")
            /\ UNCHANGED <<row, current_type, xml_tree, heap,
                           multiple_item_element>>
       ELSE /\ pc' = "create_xml_file"
            /\ row' = 2
            /\ current_type' = InitialPass.current_type
            /\ xml_tree' = InitialPass.xml_tree
            /\ heap' = InitialPass.heap
            /\ multiple_item_element' = InitialPass.multiple_item_element
            /\ UNCHANGED <<errors, failure, exit_code>>
    /\ UNCHANGED <<colVars, codecVars, mode, worksheet, warnings>>
    /\ UNCHANGED deconstructVars
    /\ UNCHANGED <<number_of_rows, number_of_columns, return_index, folders,
                   column, files>>

\* One iteration of `for row in range(2, rows)`, or the end of the loop.
CreateXmlFile(here, after, col_number, rows) ==
    /\ pc = here
    /\ IF row >= rows
       THEN /\ pc' = after
            /\ UNCHANGED <<row, current_type, xml_tree, heap,
                           multiple_item_element, warnings, errors, failure,
                           exit_code>>
       ELSE LET st == RowStep([current_type |-> current_type,
                               xml_tree |-> xml_tree, heap |-> heap,
                               multiple_item_element |-> multiple_item_element,
                               warnings |-> warnings, raised |-> ""],
                              worksheet, col_number, row, rows)
            IN  /\ current_type' = st.current_type
                /\ xml_tree' = st.xml_tree
                /\ heap' = st.heap
                /\ multiple_item_element' = st.multiple_item_element
                /\ warnings' = st.warnings
                /\ IF st.raised # ""
                   THEN CaughtByMain(st.raised) /\ UNCHANGED row
                   ELSE /\ row' = row + 1
                        /\ UNCHANGED <<pc, errors, failure, exit_code>>
    /\ UNCHANGED <<colVars, codecVars, mode, worksheet>>
    /\ UNCHANGED deconstructVars
    /\ UNCHANGED <<number_of_rows, number_of_columns, return_index, folders,
                   column, files>>

SaveXmlFile ==
    /\ pc = "save_xml_file"
    /\ \E outcome \in {"", "OSError"} :
          IF outcome # ""
          THEN Fatal(outcome) /\ UNCHANGED <<files, column>>
          ELSE /\ files' = Append(files,
                                  [column |-> column,
                                   tree |-> Resolve(xml_tree, heap)])
               /\ column' = NextLanguageColumn(column)
               /\ pc' = "launch_xml_construction"
               /\ UNCHANGED <<errors, failure, exit_code>>
    /\ UNCHANGED <<colVars, codecVars, mode, worksheet, warnings>>
    /\ UNCHANGED deconstructVars
    /\ UNCHANGED <<number_of_rows, number_of_columns, return_index, folders,
                   row, current_type, xml_tree, heap, multiple_item_element>>

(***************************************************************************)
(* The values of the variables a specification does not use.               *)
(***************************************************************************)
IdleProcess ==
    /\ mode = "none" /\ failure = "" /\ xml_items = <<>> /\ worksheet = <<>>
    /\ excel_row_index = 1 /\ element_pos = 1 /\ workbook_saved = None
    /\ number_of_rows = 0 /\ number_of_columns = 0 /\ return_index = 0
    /\ folders = {} /\ column = 0 /\ row = 0 /\ current_type = tag_string
    /\ xml_tree = <<>> /\ heap = <<>> /\ multiple_item_element = 0
    /\ files = <<>> /\ warnings = 0 /\ errors = 0 /\ exit_code = NoExit

IdleColumn == index = 0 /\ column_value = None

IdleCodec ==
    /\ item = Element(tag_item) /\ mod_string = None /\ ui_string = None
    /\ modifier_list = <<>> /\ rebuilt = Returned(None)

(***************************************************************************)
(* The runs of the tool                                                    *)
(***************************************************************************)
MaxRows == 3            \* data rows of a worksheet given to construct

FooType == <<"f", "o", "o">>
ModifiersBU == <<"b", Comma, "u">>

\* A data row: type, modifiers and key, and a string under every language.
DataRow(type, modifiers, key) ==
    [l \in Letters(DeconstructColumns) |->
        IF l = A THEN type
        ELSE IF l = B THEN modifiers
        ELSE IF l = C THEN key
        ELSE IF l = D THEN TextX
        ELSE TextY]

RowPool ==
    {DataRow(type, modifiers, KeyK) :
        type \in {tag_string, tag_item}, modifiers \in {None, ModifiersBU}}
    \cup {DataRow(type, None, KeyK) :
              type \in {tag_string_array, tag_plurals, FooType}}
    \cup {DataRow(None, None, None)}

HeaderRow == [l \in Letters(DeconstructColumns) |->
                 Headings[letters_to_column(l) + 1]]

\* The heading row with the language name of column c deleted.
HeaderWithout(c) == [HeaderRow EXCEPT ![get_column_value(c)] = None]

\* A sheet whose row 702 has an unknown type: the first row whose number
\* get_column_value cannot turn into letters.
TallSheet ==
    [r \in 1..(LastTwoLetterIndex + 2) |->
        IF r = 1 THEN HeaderRow ELSE DataRow(FooType, None, KeyK)]

\* Sheets where a row of unknown or blank type stands between two items of
\* a container, followed by one more row.
InterruptedSheets ==
    {<<HeaderRow, DataRow(container, None, KeyK), DataRow(tag_item, None, KeyK),
       between, DataRow(tag_item, None, KeyK), DataRow(last, None, KeyK)>> :
        container \in {tag_string_array, tag_plurals},
        between \in {DataRow(FooType, None, KeyK), DataRow(None, None, None)},
        last \in {tag_string, tag_item}}

Worksheets ==
    {<<HeaderRow>> \o rows : rows \in SeqsUpTo(RowPool, MaxRows)}
    \cup {<<HeaderWithout(c)>> \o rows :
              c \in FirstLanguageColumn..(DeconstructColumns - 1),
              rows \in SeqsUpTo(RowPool, 1)}
    \cup {TallSheet}
    \cup InterruptedSheets

Init ==
    /\ pc = "main"
    /\ mode \in {"deconstruct", "construct", "none"}
    /\ xml_items \in (IF mode = "deconstruct" THEN XmlInputs ELSE {<<>>})
    /\ worksheet \in (IF mode = "construct" THEN Worksheets ELSE {<<>>})
    /\ failure = "" /\ excel_row_index = 1 /\ element_pos = 1
    /\ workbook_saved = None
    /\ number_of_rows = 0 /\ number_of_columns = 0 /\ return_index = 0
    /\ folders = {} /\ column = 0 /\ row = 0 /\ current_type = tag_string
    /\ xml_tree = <<>> /\ heap = <<>> /\ multiple_item_element = 0
    /\ files = <<>> /\ warnings = 0 /\ errors = 0 /\ exit_code = NoExit
    /\ IdleColumn /\ IdleCodec

Next ==
    \/ Main
    \/ ReadXmlFile
    \/ PopulateWorksheet("populate_worksheet", "style_worksheet")
    \/ StyleWorksheet
    \/ SaveWorkbook
    \/ ReadExcelFile
    \/ GetExcelWorksheet
    \/ CreateFolders
    \/ LaunchXmlConstruction
    \/ CreateXmlFile("create_xml_file", "save_xml_file", column,
                     number_of_rows)
    \/ SaveXmlFile

Spec == Init /\ [][Next]_vars

(***************************************************************************)
(* get_column_value on its own                                             *)
(***************************************************************************)
ColumnInit ==
    /\ index \in 0..MaxIndex
    /\ column_value = None
    /\ pc = "get_column_value"
    /\ IdleCodec /\ IdleProcess

GetColumnValue ==
    /\ pc = "get_column_value"
    /\ column_value' = get_column_value(index)
    /\ pc' = "column_done"
    /\ UNCHANGED <<index, codecVars, procVars>>

ColumnNext == GetColumnValue

SpecColumn == ColumnInit /\ [][ColumnNext]_vars

(***************************************************************************)
(* The modifier codec on its own                                           *)
(***************************************************************************)
CodecInit ==
    /\ item \in CodecLeaves
    /\ mod_string = None /\ ui_string = None
    /\ modifier_list = <<>> /\ rebuilt = Returned(None)
    /\ pc = "derive_modifiers_and_string"
    /\ IdleColumn /\ IdleProcess

Flatten ==
    /\ pc = "derive_modifiers_and_string"
    /\ mod_string' = derive_modifiers_and_string(item)[1]
    /\ ui_string' = derive_modifiers_and_string(item)[2]
    /\ pc' = "create_modified_element"
    /\ UNCHANGED <<item, modifier_list, rebuilt, colVars, procVars>>

\* The modifier list the flattened string stands for: what split(",") makes
\* of it (lines 663, 675), and for the empty string also the empty list.
ModifierLists(modifiers_string) ==
    {PySplit(modifiers_string)}
    \cup (IF modifiers_string = <<>> THEN {<<>>} ELSE {})

Rebuild ==
    /\ pc = "create_modified_element"
    /\ modifier_list' \in ModifierLists(mod_string)
    /\ rebuilt' = create_modified_element(item.tag, modifier_list', item.name,
                                          ui_string)
    /\ pc' = "codec_done"
    /\ UNCHANGED <<item, mod_string, ui_string, colVars, procVars>>

CodecNext == Flatten \/ Rebuild

SpecCodec == CodecInit /\ [][CodecNext]_vars


(***************************************************************************)
(* populate_worksheet into an empty sheet, then create_xml_file on the     *)
(* first language column of that sheet                                     *)
(***************************************************************************)
RoundTripInit ==
    /\ pc = "populate_worksheet"
    /\ xml_items \in SeqsUpTo(GoodElements, MaxElements)
    /\ mode = "none" /\ failure = "" /\ worksheet = <<>>
    /\ excel_row_index = 1 /\ element_pos = 1 /\ workbook_saved = None
    /\ number_of_rows = 0 /\ number_of_columns = 0 /\ return_index = 0
    /\ folders = {} /\ column = 0 /\ row = 0 /\ current_type = tag_string
    /\ xml_tree = <<>> /\ heap = <<>> /\ multiple_item_element = 0
    /\ files = <<>> /\ warnings = 0 /\ errors = 0 /\ exit_code = NoExit
    /\ IdleColumn /\ IdleCodec

\* create_xml_file(worksheet, 3, worksheet.max_row, Element('resources'), path)
CallCreateXmlFile ==
    /\ pc = "call_create_xml_file"
    /\ number_of_rows' = max_row(worksheet)
    /\ number_of_columns' = max_column(worksheet)
    /\ column' = FirstLanguageColumn
    /\ row' = 2
    /\ current_type' = InitialPass.current_type
    /\ xml_tree' = InitialPass.xml_tree
    /\ heap' = InitialPass.heap
    /\ multiple_item_element' = InitialPass.multiple_item_element
    /\ pc' = "create_xml_file"
    /\ UNCHANGED <<colVars, codecVars, mode, failure, worksheet, warnings,
                   errors, exit_code, return_index, folders, files>>
    /\ UNCHANGED deconstructVars

RoundTripNext ==
    \/ PopulateWorksheet("populate_worksheet", "call_create_xml_file")
    \/ CallCreateXmlFile
    \/ CreateXmlFile("create_xml_file", "round_trip_done", column,
                     number_of_rows)

SpecRoundTrip == RoundTripInit /\ [][RoundTripNext]_vars

(***************************************************************************)
(* Claims                                                                  *)
(***************************************************************************)
\* C3: derive_modifiers_and_string followed by create_modified_element with
\* the same element type and key returns the element it started from (same
\* wrapper tags in the same nesting order, same text on the innermost node),
\* for every leaf with 0 to 4 nested single-child wrappers.
C3_ModifierRoundTrip ==
    pc = "codec_done" => rebuilt = Returned(item)

Range(seq) == {seq[i] : i \in DOMAIN seq}

\* C1: populate_worksheet into an empty table followed by create_xml_file on
\* column 3 yields the top-level entries it started from, in order, with the
\* same tags, attributes, nesting and text, whatever entry comes last.
C1_FlattenReconstructRoundTrip ==
    (pc = "round_trip_done" \/ pc = "exited") =>
        /\ pc = "round_trip_done"
        /\ Resolve(xml_tree, heap) = xml_items

\* Tables that agree with ws on columns A-C and on language column c: the
\* other language cells of the data rows all set to `other`, with or without
\* one more row that has a string under the other languages only.
OtherLanguages(ws, c, other, r) ==
    [l \in DOMAIN ws[1] |->
        IF l \in {A, B, C, get_column_value(c)} THEN Cell(ws, l, r)
        ELSE other]

Variants(ws, c) ==
    LET rewritten(other) ==
            [r \in 1..Len(ws) |->
                IF r = 1 THEN ws[1] ELSE OtherLanguages(ws, c, other, r)]
    IN  {rewritten(other) : other \in {None, TextX}}
        \cup {Append(rewritten(None),
                     OtherLanguages(ws, c, TextX, Len(ws) + 1))}

\* C2: the tree written for language column c is the tree create_xml_file
\* makes for column c of any table that agrees on columns 0-2 and c, whatever
\* the other language columns hold; a pass starts from an empty root and
\* current_type = string, with nothing left of the pass before it.
C2_ColumnIndependence ==
    /\ \A i \in DOMAIN files :
           \A other \in Variants(worksheet, files[i].column) :
               PassResult(other, files[i].column) =
                   [tree |-> files[i].tree, raised |-> ""]
    /\ (pc = "create_xml_file" /\ row = 2) =>
           /\ current_type = tag_string
           /\ xml_tree = <<>>
           /\ multiple_item_element = 0

LacksName == \E i \in DOMAIN xml_items : xml_items[i].name = None

\* C5: when a top-level element of the input has no name attribute the
\* deconstruct run never reaches the styling or the save of the workbook, no
\* file is written, and when the run has ended it has ended with exit code 1
\* after an error message.
C5_MissingNameAborts ==
    (mode = "deconstruct" /\ LacksName) =>
        /\ workbook_saved = None
        /\ pc \notin {"style_worksheet", "save_workbook"}
        /\ (pc = "exited" => exit_code = 1 /\ errors > 0)

C5_Witness ==
    /\ mode = "deconstruct" /\ LacksName
    /\ pc = "exited" /\ failure = "KeyError" /\ exit_code = 1
    /\ Len(worksheet) > 2
    /\ workbook_saved = None

KnownTypes == {tag_string, tag_string_array, tag_plurals, tag_item}

\* The element a `string` row of the sheet stands for under column c.
StringElementOfRow(ws, c, r) ==
    RowElement(tag_string, Cell(ws, B, r), Cell(ws, C, r),
               Cell(ws, get_column_value(c), r)).value

\* C6: a row of unknown type adds nothing to the output tree, produces one
\* warning and does not end the pass; and every `string` row after such a
\* row is in the tree that is written for the column.
C6_UnknownTypeSkipped ==
    /\ [][(/\ pc = "create_xml_file"
           /\ row < number_of_rows
           /\ Cell(worksheet, A, row) \notin KnownTypes)
          => (/\ Resolve(xml_tree', heap') = Resolve(xml_tree, heap)
              /\ warnings' = warnings + 1
              /\ pc' = "create_xml_file"
              /\ row' = row + 1)]_vars
    /\ [](\A i \in DOMAIN files :
            \A r \in 2..Len(worksheet) :
                (/\ Cell(worksheet, A, r) = tag_string
                 /\ \E q \in 2..(r - 1) :
                        Cell(worksheet, A, q) \notin KnownTypes)
                => StringElementOfRow(worksheet, files[i].column, r)
                       \in Range(files[i].tree))

\* C7: a run that has ended on a failure (missing or malformed source,
\* missing sheet, .xls extension, filesystem failure) has ended with exit
\* code 1: no failure path ends the process with exit code 0.
C7_FailuresExitOne ==
    (pc = "exited" /\ failure # "") => exit_code = 1

\* C8: the strings.xml files are written in increasing column order from
\* column 3 without a gap, each the outcome of one complete create_xml_file
\* pass over its column, none before create_folders has returned; while the
\* run handles column k exactly the files of columns 3..k-1 are written.
C8_FilesArePrefix ==
    /\ \A i \in DOMAIN files :
           /\ files[i].column = FirstLanguageColumn + i - 1
           /\ files[i].column <= return_index
           /\ PassResult(worksheet, files[i].column) =
                  [tree |-> files[i].tree, raised |-> ""]
    /\ pc \in {"main", "read_excel_file", "get_excel_worksheet",
               "create_folders"} => files = <<>>
    /\ pc \in {"launch_xml_construction", "create_xml_file", "save_xml_file"}
           => Len(files) = column - FirstLanguageColumn

C8_Witness ==
    /\ pc = "create_xml_file" /\ column = FirstLanguageColumn + 2 /\ row = 3
    /\ Len(files) = 2
    /\ files[1].column = FirstLanguageColumn
    /\ files[2].column = FirstLanguageColumn + 1
    /\ files[2].tree # <<>>

\* C9: create_xml_file processes every row from 2 through max_row: when the
\* loop has ended the row after max_row is the next one, and a `string` row
\* at max_row has its element in the tree written for the column.
C9_LastRowProcessed ==
    /\ pc = "save_xml_file" => row = max_row(worksheet) + 1
    /\ \A i \in DOMAIN files :
           (/\ max_row(worksheet) >= 2
            /\ Cell(worksheet, A, max_row(worksheet)) = tag_string)
           => StringElementOfRow(worksheet, files[i].column,
                                 max_row(worksheet))
                  \in Range(files[i].tree)

\* Row r is an `item` row in the run of items that directly follows the
\* container row RunStart(r).
IsItemRow(ws, r) == r \in 2..Len(ws) /\ Cell(ws, A, r) = tag_item

RunStart(ws, r) ==
    CHOOSE q \in 1..r : /\ Cell(ws, A, q) # tag_item
                        /\ \A j \in (q + 1)..r : Cell(ws, A, j) = tag_item

InRun(ws, r) ==
    /\ IsItemRow(ws, r)
    /\ Cell(ws, A, RunStart(ws, r)) \in {tag_string_array, tag_plurals}

LastOfRun(ws, r) ==
    InRun(ws, r) /\ (~IsItemRow(ws, r + 1) \/ r = max_row(ws))

\* The container of the run that ends at row r, with all its items.
ContainerOfRun(ws, c, r) ==
    LET q == RunStart(ws, r)
        type == Cell(ws, A, q)
        item_of(j) ==
            LET made == RowElement(tag_item, Cell(ws, B, j), Cell(ws, C, j),
                                   Cell(ws, get_column_value(c), j)).value
            IN  IF type = tag_plurals
                THEN [made EXCEPT !.quantity = Str(Cell(ws, C, j))]
                ELSE made
    IN  [Element(type) EXCEPT
            !.name = Str(Cell(ws, C, q)),
            !.children = [n \in 1..(r - q) |-> item_of(q + n)]]

\* C10: a container row followed by k >= 1 consecutive item rows is appended
\* to the tree once, by the step that processes its last item row, holding
\* all k items in row order; no other row of the run appends anything, and
\* the tree handed to save_xml_file holds the container of every run.
C10_ContainerClosedOnce ==
    /\ [][(/\ pc = "create_xml_file"
           /\ row < number_of_rows
           /\ InRun(worksheet, row))
          => (Resolve(xml_tree', heap') =
                IF LastOfRun(worksheet, row)
                THEN Append(Resolve(xml_tree, heap),
                            ContainerOfRun(worksheet, column, row))
                ELSE Resolve(xml_tree, heap))]_vars
    /\ [](pc = "save_xml_file" =>
            \A r \in 2..Len(worksheet) :
                LastOfRun(worksheet, r)
                => ContainerOfRun(worksheet, column, r)
                       \in Range(Resolve(xml_tree, heap)))

\* The step that reads a row with a blank type cell directly under a
\* `string-array` row.
BlankUnderArray ==
    /\ pc = "create_xml_file"
    /\ row < number_of_rows
    /\ Cell(worksheet, A, row) = None
    /\ Cell(worksheet, A, row - 1) = tag_string_array

\* C11 as stated: the blank row is an item of the array: current_type stays
\* string-array, an `item` element holding the row's string is appended to
\* the open array, and the array is put in the tree when the next row's type
\* is not `item`.
C11_BlankRowIsItem ==
    [][BlankUnderArray =>
        LET open == multiple_item_element
        IN  /\ current_type' = tag_string_array
            /\ open # 0
            /\ Len(heap'[open].children) = Len(heap[open].children) + 1
            /\ heap'[open].children[Len(heap'[open].children)].tag = tag_item
            /\ (Cell(worksheet, A, row + 1) # tag_item
                   => xml_tree' = Append(xml_tree, Reference(open)))]_vars

\* C11: a row whose type cell is blank and that directly follows a
\* `string-array` row is not handled as an item: reading it sets
\* current_type to the blank value, no element is made or appended to the
\* array, the tree stays as it is, and the row is logged as of unknown type
\* (when its number is one get_column_value can turn into letters).
C11_BlankRowSkipped ==
    [][BlankUnderArray =>
        /\ current_type' = None
        /\ heap' = heap
        /\ xml_tree' = xml_tree
        /\ multiple_item_element' = multiple_item_element
        /\ (ValidCoordinate(get_column_value(row))
               => /\ warnings' = warnings + 1
                  /\ row' = row + 1
                  /\ pc' = "create_xml_file")]_vars

C11_Witness ==
    /\ pc = "create_xml_file" /\ row = 4 /\ number_of_rows = 4
    /\ Cell(worksheet, A, 2) = tag_string_array
    /\ Cell(worksheet, A, 3) = None
    /\ current_type = None
    /\ warnings = 1
    /\ xml_tree = <<>>
    /\ heap = <<[Element(tag_string_array) EXCEPT !.name = KeyK]>>

\* The step that reads a row of type `item`.
ItemRowRead ==
    /\ pc = "create_xml_file"
    /\ row < number_of_rows
    /\ Cell(worksheet, A, row) = tag_item

\* The step adds one `item` element, without a name and with the key as
\* quantity exactly under `plurals`, to the container in use, which is not
\* yet in the tree; nothing but that container may be added to the tree.
ItemJoinsOpenContainer ==
    LET open == multiple_item_element
        added == heap'[open].children[Len(heap'[open].children)]
    IN  /\ open # 0
        /\ Reference(open) \notin Range(xml_tree)
        /\ multiple_item_element' = open
        /\ heap' = [heap EXCEPT ![open].children = Append(@, added)]
        /\ added.tag = tag_item
        /\ added.name = None
        /\ added.quantity = IF current_type = tag_plurals
                            THEN Str(Cell(worksheet, C, row)) ELSE None
        /\ xml_tree' \in {xml_tree, Append(xml_tree, Reference(open))}

\* C12 as stated: whatever current_type is when an `item` row is read, the
\* row leaves it unchanged and adds an `item` element to the open container,
\* never a top-level element.
C12_ItemAlwaysJoinsContainer ==
    [][ItemRowRead => (current_type' = current_type
                       /\ ItemJoinsOpenContainer)]_vars

\* C12: every `item` row leaves current_type unchanged.  Read while
\* current_type is string-array or plurals it adds an `item` element (never
\* a top-level element) to the open container, with a quantity taken from
\* the key cell exactly under plurals, and no name.  Read while current_type
\* is `string`, the initial value included, it adds a top-level `string`
\* element named by the key cell instead.
C12_ItemJoinsContainerOfItsType ==
    [][ItemRowRead =>
        /\ current_type' = current_type
        /\ current_type \in {tag_string_array, tag_plurals}
              => ItemJoinsOpenContainer
        /\ current_type = tag_string
              => /\ heap' = heap
                 /\ Len(xml_tree') = Len(xml_tree) + 1
                 /\ xml_tree' = Append(xml_tree, xml_tree'[Len(xml_tree')])
                 /\ xml_tree'[Len(xml_tree')].ref = 0
                 /\ xml_tree'[Len(xml_tree')].element.tag = tag_string
                 /\ xml_tree'[Len(xml_tree')].element.name =
                        Str(Cell(worksheet, C, row))]_vars

C12_Witness ==
    /\ pc = "create_xml_file" /\ row = 4
    /\ Cell(worksheet, A, 2) = tag_plurals
    /\ Cell(worksheet, A, 3) = tag_item
    /\ Cell(worksheet, A, 4) = tag_item
    /\ current_type = tag_plurals
    /\ xml_tree = <<Reference(multiple_item_element)>>
    /\ Len(heap[multiple_item_element].children) = 1
    /\ heap[multiple_item_element].children[1].quantity = KeyK
    /\ heap[multiple_item_element].children[1].name = None

\* C13: create_modified_element given an empty modifier list does not fail:
\* it returns a root of the given element type, named by the key unless the
\* type is `item`, that has no children and holds the text itself.
C13_EmptyListHoldsText ==
    (pc = "codec_done" /\ modifier_list = <<>>) =>
        /\ rebuilt.raised = ""
        /\ rebuilt.value.tag = item.tag
        /\ rebuilt.value.name = (IF item.tag = tag_item THEN None
                                 ELSE item.name)
        /\ rebuilt.value.children = <<>>
        /\ rebuilt.value.text = ui_string

\* A row of the table as the claims describe it: type, modifier, key and
\* string in the columns A-D, nothing in the language columns after them.
TableRow(type, modifier, key, string) ==
    [BlankRow(DeconstructColumns) EXCEPT
        ![A] = type, ![B] = modifier, ![C] = key, ![D] = string]

StyledRow(type, key, element) ==
    TableRow(type, derive_modifiers_and_string(element)[1], key,
             derive_modifiers_and_string(element)[2])

ChildRow(element, child) ==
    LET key == IF element.tag = tag_plurals THEN child.quantity ELSE None
    IN  IF child.children = <<>>
        THEN TableRow(child.tag, None, key, child.text)
        ELSE StyledRow(child.tag, key, child)

RowsOfElement(element) ==
    IF element.children = <<>>
    THEN <<TableRow(element.tag, None, element.name, element.text)>>
    ELSE IF element.tag \in {tag_string_array, tag_plurals}
    THEN <<TableRow(element.tag, None, element.name, None)>>
         \o [k \in DOMAIN element.children |->
                ChildRow(element, element.children[k])]
    ELSE <<StyledRow(element.tag, element.name, element)>>

\* The rows of the first n elements, in input order.
RECURSIVE RowsOfElements(_, _)
RowsOfElements(elements, n) ==
    IF n = 0 THEN <<>>
    ELSE RowsOfElements(elements, n - 1) \o RowsOfElement(elements[n])

\* The table from row 2 on.
DataRows(ws) == IF ws = <<>> THEN <<>> ELSE Tail(ws)

\* C14: populate_worksheet emits, per top-level element in input order: one
\* row (tag, name, text, no modifier) for an element without children; for a
\* string-array or plurals with children the row of the container followed
\* directly by one row per child in child order (the child's tag, its
\* quantity as key only under plurals, modifier and string from
\* derive_modifiers_and_string when the child has children, else its text);
\* for any other tag with children one row with the name as key and the
\* modifier and string of derive_modifiers_and_string.
C14_RowsPerElement ==
    /\ pc = "populate_worksheet" =>
           DataRows(worksheet) = RowsOfElements(xml_items, element_pos - 1)
    /\ pc \in {"style_worksheet", "save_workbook"} =>
           DataRows(worksheet) = RowsOfElements(xml_items, Len(xml_items))
    /\ (mode = "deconstruct" /\ workbook_saved # None) =>
           DataRows(worksheet) = RowsOfElements(xml_items, Len(xml_items))

C14_Witness ==
    /\ pc = "style_worksheet"
    /\ Len(xml_items) = 2
    /\ xml_items[1].tag = tag_plurals
    /\ Len(xml_items[1].children) = 2
    /\ xml_items[1].children[1].children # <<>>
    /\ xml_items[2].tag = tag_string
    /\ Len(xml_items[2].children) = 1
    /\ Cell(worksheet, A, 3) = tag_item
    /\ Cell(worksheet, B, 3) = <<"b">>
    /\ Cell(worksheet, C, 3) = QuantityOne
    /\ Cell(worksheet, D, 4) = TextY
    /\ Cell(worksheet, A, 5) = tag_string
    /\ Cell(worksheet, B, 5) \in {<<"b">>, <<"b", Comma, "u">>}

\* The children that get a row of their own.
ContainerChildren(element) ==
    IF element.tag \in {tag_string_array, tag_plurals}
    THEN Len(element.children) ELSE 0

\* Rows emitted for the first n elements.
RECURSIVE RowsEmitted(_, _)
RowsEmitted(elements, n) ==
    IF n = 0 THEN 0
    ELSE RowsEmitted(elements, n - 1) + 1 + ContainerChildren(elements[n])

\* The rows of the table that hold anything.
WrittenRows(ws) ==
    {r \in 1..Len(ws) : ws[r] # BlankRow(Cardinality(DOMAIN ws[r]))}

\* C15: the running row index of populate_worksheet makes row 2 the first
\* emitted row and grows by one per emitted row, top-level rows and child
\* rows alike: an iteration leaves the rows written before it alone and
\* writes the container's row and its children's rows directly after them;
\* row 1 is never written, and after the pass the written rows are exactly
\* 2..(1 + top-level elements + children of string-array/plurals elements).
C15_RowIndexDense ==
    /\ [][(pc = "populate_worksheet" /\ element_pos <= Len(xml_items)
             /\ pc' = "populate_worksheet")
          => LET element == xml_items[element_pos]
                 first == excel_row_index + 1
             IN  /\ first >= 2
                 /\ excel_row_index' = first + ContainerChildren(element)
                 /\ \A r \in 1..Len(worksheet) : worksheet'[r] = worksheet[r]
                 /\ Len(worksheet) = (IF excel_row_index = 1 THEN 0
                                      ELSE excel_row_index)
                 /\ Cell(worksheet', A, first) = element.tag
                 /\ \A k \in 1..ContainerChildren(element) :
                        Cell(worksheet', A, first + k) = element.children[k].tag
                 /\ Len(worksheet') = excel_row_index']_vars
    /\ []((pc = "populate_worksheet"
            \/ (mode = "deconstruct" /\ failure = "KeyError"))
          => WrittenRows(worksheet) = 2..excel_row_index)
    /\ [](pc = "style_worksheet"
          => /\ excel_row_index = 1 + RowsEmitted(xml_items, Len(xml_items))
             /\ WrittenRows(worksheet) = 2..excel_row_index)

C15_Witness ==
    /\ pc = "style_worksheet"
    /\ Len(xml_items) = 2
    /\ xml_items[1].tag = tag_string_array
    /\ Len(xml_items[1].children) = 2
    /\ xml_items[2].tag = tag_string
    /\ Len(xml_items[2].children) = 1
    /\ excel_row_index = 5
    /\ WrittenRows(worksheet) = 2..5

\* The tags of the single-child wrappers nested in an element, outermost
\* first, and the text of the childless node at the bottom.
RECURSIVE WrapperTags(_)
WrapperTags(element) ==
    IF element.children = <<>> THEN <<>>
    ELSE <<element.children[1].tag>> \o WrapperTags(element.children[1])

RECURSIVE InnermostText(_)
InnermostText(element) ==
    IF element.children = <<>> THEN element.text
    ELSE InnermostText(element.children[1])

RECURSIVE CommaJoined(_)
CommaJoined(tags) ==
    IF tags = <<>> THEN <<>>
    ELSE IF Len(tags) = 1 THEN tags[1]
    ELSE tags[1] \o <<Comma>> \o CommaJoined(Tail(tags))

\* C16: for an element around a chain of n >= 0 single-child wrappers,
\* derive_modifiers_and_string returns the tags of exactly the n wrappers,
\* outermost first and joined by commas, without the tag of the element
\* itself, and the text of the innermost node; for n = 0 the empty string
\* and the element's own text.
C16_DeriveChain ==
    pc \in {"create_modified_element", "codec_done"} =>
        /\ mod_string = CommaJoined(WrapperTags(item))
        /\ ui_string = InnermostText(item)
        /\ Len(PySplit(mod_string)) = (IF WrapperTags(item) = <<>> THEN 1
                                       ELSE Len(WrapperTags(item)))
        /\ (item.children = <<>> => mod_string = <<>> /\ ui_string = item.text)

C16_Witness ==
    /\ pc = "create_modified_element"
    /\ item.tag = tag_string
    /\ WrapperTags(item) = <<<<"b">>, <<"u">>, <<"i">>>>
    /\ mod_string = <<"b", Comma, "u", Comma, "i">>
    /\ ui_string = TextX

\* C17: whatever the table, also when a row of unknown or blank type stands
\* between the items of a run, create_xml_file appends no container to the
\* tree more than once, and adds no item to a container that is already in
\* the tree.
C17_ClosedContainerStaysClosed ==
    /\ [](\A i, j \in DOMAIN xml_tree :
             (i # j /\ xml_tree[i].ref # 0)
             => xml_tree[i].ref # xml_tree[j].ref)
    /\ [][pc = "create_xml_file"
          => \A i \in DOMAIN xml_tree :
                 xml_tree[i].ref # 0
                 => heap'[xml_tree[i].ref] = heap[xml_tree[i].ref]]_vars

=============================================================================
